---- MODULE Spec2Model ----
(***************************************************************************)
(* Budgeted prompt assembly of the agent harness:                          *)
(*   ContextManager              (context_manager_module.py)               *)
(*   DynamicPromptConstructor    (dynamic_prompt_constructor.py)           *)
(*   ContextualMemoryCondenserAI (contextual_memory_condenser_ai.py)       *)
(* and the goal list of the harness:                                       *)
(*   GoalManager                 (goal_manager_module.py)                  *)
(* A Python str is a sequence of one-character strings; len, slicing,      *)
(* strip, split, join and capitalize are computed on that sequence.        *)
(***************************************************************************)
EXTENDS Integers, Sequences, FiniteSets, TLC

VARIABLES
    max_tokens,             \* ContextManager.max_tokens (fixed at construction)
    context_history,        \* ContextManager.context_history
    current_total_tokens,   \* ContextManager.current_total_tokens
    cm_last,                \* the last ContextManager call: name, cost, stored?, roles evicted
    dpc_call,               \* the last build_and_optimize_prompt call: arguments and result
    cmc_call,               \* the last condense_information call: arguments and result
    est_call,               \* the last _estimate_tokens calls on two texts and their concatenation
    goals,                  \* GoalManager.goals, in insertion order
    gm_last                 \* the last GoalManager call: name and return value

vars == <<max_tokens, context_history, current_total_tokens, cm_last, dpc_call, cmc_call,
          est_call, goals, gm_last>>

(***************************************************************************)
(* Python str and list primitives                                          *)
(***************************************************************************)
Min(a, b) == IF a <= b THEN a ELSE b
Max(a, b) == IF a >= b THEN a ELSE b

\* s[:n] of Python: a negative n counts from the end
SlicePrefix(s, n) ==
    IF n >= 0 THEN SubSeq(s, 1, Min(n, Len(s)))
    ELSE SubSeq(s, 1, Max(Len(s) + n, 0))

\* the characters str.strip() and str.split() treat as whitespace
Whitespace == {" ", "\n", "\t"}

RECURSIVE LStrip(_)
LStrip(s) ==
    IF s # <<>> /\ Head(s) \in Whitespace THEN LStrip(Tail(s)) ELSE s

RECURSIVE RStrip(_)
RStrip(s) ==
    IF s # <<>> /\ s[Len(s)] \in Whitespace THEN RStrip(SubSeq(s, 1, Len(s) - 1)) ELSE s

\* str.strip()
Strip(s) == RStrip(LStrip(s))

\* len(text.split()): the number of maximal runs of non-whitespace characters
WordCount(s) ==
    Cardinality({i \in 1..Len(s) :
        /\ s[i] \notin Whitespace
        /\ (i = 1 \/ s[i - 1] \in Whitespace)})

\* sep.join(parts)
RECURSIVE Join(_, _)
Join(sep, parts) ==
    IF parts = <<>> THEN <<>>
    ELSE IF Len(parts) = 1 THEN parts[1]
    ELSE parts[1] \o sep \o Join(sep, Tail(parts))

UpperOf == [c \in {"a", "s", "u"} |->
              CASE c = "a" -> "A" [] c = "s" -> "S" [] c = "u" -> "U"]
ToUpper(c) == IF c \in DOMAIN UpperOf THEN UpperOf[c] ELSE c
ToLower(c) == IF \E l \in DOMAIN UpperOf : UpperOf[l] = c
              THEN CHOOSE l \in DOMAIN UpperOf : UpperOf[l] = c ELSE c

\* str.capitalize(): first character upper-cased, the rest lower-cased
Capitalize(s) ==
    IF s = <<>> THEN s
    ELSE <<ToUpper(s[1])>> \o [i \in 1..(Len(s) - 1) |-> ToLower(s[i + 1])]

RECURSIVE SumTokens(_)
SumTokens(h) == IF h = <<>> THEN 0 ELSE Head(h).tokens + SumTokens(Tail(h))

(***************************************************************************)
(* Token estimators                                                        *)
(***************************************************************************)
\* len(text) // 4, the character fallback of the constructor and the condenser
CharFallback(text) == Len(text) \div 4

\* TokenOptimizer.estimate_token_count, which main.py injects as tokenizer_func
estimate_token_count(text) ==
    IF text = <<>> THEN 0 ELSE (Len(text) + 3) \div 4

\* the word tokenizer of the modules' own tests
simple_word_tokenizer(text) == WordCount(text)

\* tokenizer_func: None, one of the two tokenizers above, or one that raises
Tokenizers == {"none", "ceil4", "words", "raises"}

\* _estimate_tokens as it would read with an except branch that returns 0
estimate_tokens_ExceptZero(tok, text) ==
    CASE tok = "none"   -> CharFallback(text)
      [] tok = "ceil4"  -> estimate_token_count(text)
      [] tok = "words"  -> simple_word_tokenizer(text)
      [] tok = "raises" -> 0

\* _estimate_tokens of DynamicPromptConstructor and ContextualMemoryCondenserAI
estimate_tokens(tok, text) ==
    CASE tok = "none"   -> CharFallback(text)
      [] tok = "ceil4"  -> estimate_token_count(text)
      [] tok = "words"  -> simple_word_tokenizer(text)
      [] tok = "raises" -> CharFallback(text)

(***************************************************************************)
(* ContextManager                                                          *)
(***************************************************************************)
\* line 47 as it would read without the parentheses: len(text) // 4 + 3
CM_estimate_tokens_NoParentheses(text) ==
    IF text = <<>> THEN 0 ELSE Len(text) \div 4 + 3

\* ContextManager._estimate_tokens
CM_estimate_tokens(text) ==
    IF text = <<>> THEN 0 ELSE (Len(text) + 3) \div 4

\* the message texts of the module's own scenarios (lines 174-210)
Txt_Empty == <<>>
Txt_Hello == <<"H", "e", "l", "l", "o">>
Txt_World == <<"W", "o", "r", "l", "d">>
Txt_ThisIsATest == <<"T", "h", "i", "s", " ", "i", "s", " ", "a", " ", "t", "e", "s", "t">>
Txt_AnotherOne == <<"A", "n", "o", "t", "h", "e", "r", " ", "o", "n", "e">>
Txt_TooLong ==
    <<"T", "h", "i", "s", " ", "s", "i", "n", "g", "l", "e", " ", "m", "e", "s", "s", "a", "g", "e", " ", "i", "s", " ", "f", "a", "r", " ", "t", "o", "o", " ", "l", "o", "n", "g", " ", "f", "o", "r", " ", "t", "h", "e", " ", "t", "i", "n", "y", " ", "c", "o", "n", "t", "e", "x", "t", " ", "l", "i", "m", "i", "t", " ", "o", "f", " ", "t", "e", "n", " ", "t", "o", "k", "e", "n", "s">>

Txt_YouAreHelpful == <<"Y", "o", "u", " ", "a", "r", "e", " ", "h", "e", "l", "p", "f", "u", "l", ".">>

Role_user == <<"u", "s", "e", "r">>
Role_assistant == <<"a", "s", "s", "i", "s", "t", "a", "n", "t">>
Role_system == <<"s", "y", "s", "t", "e", "m">>
Roles == {Role_user, Role_assistant, Role_system}

\* line 99 as it would read if nothing were evicted for a message that cannot fit
NeedsPruning_OnlyIfRoom(history, total, additional, maxTok) ==
    (total + additional > maxTok) /\ additional <= maxTok /\ history # <<>>

\* line 99 as it would read with >= for >
NeedsPruning_Eager(history, total, additional, maxTok) ==
    (total + additional >= maxTok) /\ history # <<>>

\* line 99: the loop condition of prune_context_if_needed
NeedsPruning(history, total, additional, maxTok) ==
    (total + additional > maxTok) /\ history # <<>>

\* line 103 as it would read with pop() for pop(0)
PopNewest(history) ==
    [removed |-> history[Len(history)], rest |-> SubSeq(history, 1, Len(history) - 1)]

\* line 103: context_history.pop(0)
PopOldest(history) == [removed |-> history[1], rest |-> Tail(history)]

\* line 104 with the subtraction left out
TotalAfterRemoval_Kept(total, removed_message) == total

\* line 104: current_total_tokens -= removed_message["tokens"]
TotalAfterRemoval(total, removed_message) == total - removed_message.tokens

\* lines 99-109: the pruning loop; removed lists the messages popped, in order
RECURSIVE PruneLoop(_, _, _, _, _)
PruneLoop(history, total, additional, maxTok, removed) ==
    IF NeedsPruning(history, total, additional, maxTok)
    THEN LET p == PopOldest(history)
         IN  PruneLoop(p.rest, TotalAfterRemoval(total, p.removed), additional, maxTok,
                       Append(removed, p.removed))
    ELSE [history |-> history, total |-> total,
          pruned |-> removed # <<>>, removed |-> removed]

\* ContextManager.prune_context_if_needed: the state after the call and its return value
prune_context_if_needed(history, total, additional, maxTok) ==
    PruneLoop(history, total, additional, maxTok, <<>>)

\* line 68 as it would read with < for <=
MessageFits_Strict(total, message_tokens, maxTok) == total + message_tokens < maxTok

\* line 68 with the test left out
MessageFits_Always(total, message_tokens, maxTok) == TRUE

\* line 68: the test that decides whether the message is stored
MessageFits(total, message_tokens, maxTok) == total + message_tokens <= maxTok

\* ContextManager.add_message: the state after the call
add_message(history, total, role, content, maxTok) ==
    LET message_tokens == CM_estimate_tokens(content)
        p == prune_context_if_needed(history, total, message_tokens, maxTok)
    IN  IF MessageFits(p.total, message_tokens, maxTok)
        THEN [history |-> Append(p.history,
                                 [role |-> role, content |-> content, tokens |-> message_tokens]),
              total |-> p.total + message_tokens,
              stored |-> TRUE, removed |-> p.removed, tokens |-> message_tokens]
        ELSE [history |-> p.history, total |-> p.total,
              stored |-> FALSE, removed |-> p.removed, tokens |-> message_tokens]

\* Lists and dicts are objects: two of them can hold equal values and still be
\* different objects, and a change made through one name is seen through every
\* name of the same object. An object is named by where it was made: the list
\* and the dicts of self.context_history, or the list and the dicts that one
\* evaluation of line 120 builds.
StoreList == [object |-> "self.context_history"]
StoreDict(i) == [object |-> "self.context_history[i]", index |-> i]
NewList == [object |-> "list built at line 120"]
NewDict(i) == [object |-> "dict built at line 120", index |-> i]

\* get_context as it would read with `return self.context_history`: the list of
\* the store and its dicts themselves
get_context_Stored(history) ==
    [list |-> StoreList,
     dicts |-> [i \in 1..Len(history) |-> StoreDict(i)],
     messages |-> history]

\* ContextManager.get_context, line 120: the list comprehension builds a new list,
\* and the dict display in it a new dict for every message, holding the role and
\* the content (immutable strings) of the stored one. list and dicts say which
\* objects the returned list and its elements are, messages what they hold.
get_context(history) ==
    [list |-> NewList,
     dicts |-> [i \in 1..Len(history) |-> NewDict(i)],
     messages |-> [i \in 1..Len(history) |->
                      [role |-> history[i].role, content |-> history[i].content]]]

\* what a caller may do to a list of message dicts it holds
SnapshotMutations == {"clear", "pop", "set_content"}

\* a list of dicts after clear(), pop(0) or [0]["content"] = "" on it
MutateMessages(messages, mutation) ==
    CASE mutation = "clear" -> <<>>
      [] mutation = "pop" -> Tail(messages)
      [] mutation = "set_content" -> [messages EXCEPT ![1].content = Txt_Empty]

\* the returned list after the caller's snapshot.clear(), snapshot.pop(0) or
\* snapshot[0]["content"] = ""
SnapshotAfterMutation(snapshot, mutation) ==
    [list |-> snapshot.list,
     dicts |-> IF mutation = "clear" THEN <<>>
               ELSE IF mutation = "pop" THEN Tail(snapshot.dicts)
               ELSE snapshot.dicts,
     messages |-> MutateMessages(snapshot.messages, mutation)]

\* context_history after that mutation: clear and pop change the list object they
\* are called on, the item assignment changes the dict object that is element 0;
\* the store changes when that object is the store's own
StoreAfterSnapshotMutation(history, snapshot, mutation) ==
    IF mutation \in {"clear", "pop"}
    THEN IF snapshot.list = StoreList THEN MutateMessages(history, mutation) ELSE history
    ELSE IF snapshot.dicts[1].object = StoreDict(1).object
         THEN [history EXCEPT ![snapshot.dicts[1].index].content = Txt_Empty]
         ELSE history

\* ContextManager.get_current_token_count
get_current_token_count(total) == total

\* ContextManager.clear_context
clear_context == [history |-> <<>>, total |-> 0]

\* model bound: the longest history the model follows
MaxHistory == 4

\* the max_tokens a ContextManager is constructed with
MaxTokensChoices == {0, 4, 10}
\* the (role, content) pairs passed to add_message: those of the module's scenarios
\* and two empty messages
CMMessages ==
    {<<Role_user, Txt_Hello>>, <<Role_assistant, Txt_World>>,
     <<Role_user, Txt_ThisIsATest>>, <<Role_assistant, Txt_AnotherOne>>,
     <<Role_user, Txt_TooLong>>, <<Role_system, Txt_YouAreHelpful>>,
     <<Role_system, Txt_Empty>>, <<Role_user, Txt_Empty>>}
\* the additional_tokens_to_add passed to a direct prune_context_if_needed call
AdditionalChoices == {-1, 0, 3, 11}

NoCall == [op |-> "none"]

\* the roles of the messages a call removed, oldest first
RolesOf(removed) == [i \in 1..Len(removed) |-> removed[i].role]

InitCM ==
    /\ max_tokens \in MaxTokensChoices
    /\ context_history = <<>>
    /\ current_total_tokens = 0
    /\ cm_last = [op |-> "init", tokens |-> 0, stored |-> FALSE, evicted |-> <<>>]
    /\ dpc_call = NoCall
    /\ cmc_call = NoCall
    /\ est_call = NoCall
    /\ goals = <<>>
    /\ gm_last = NoCall

AddMessage ==
    \E m \in CMMessages :
        LET r == add_message(context_history, current_total_tokens, m[1], m[2], max_tokens)
        IN  /\ Len(r.history) <= MaxHistory
            /\ context_history' = r.history
            /\ current_total_tokens' = r.total
            /\ cm_last' = [op |-> "add_message", tokens |-> r.tokens,
                           stored |-> r.stored, evicted |-> RolesOf(r.removed),
                           role |-> m[1], content |-> m[2]]
            /\ UNCHANGED <<max_tokens, dpc_call, cmc_call, est_call, goals, gm_last>>

PruneContextIfNeeded ==
    \E additional \in AdditionalChoices :
        LET r == prune_context_if_needed(context_history, current_total_tokens,
                                         additional, max_tokens)
        IN  /\ context_history' = r.history
            /\ current_total_tokens' = r.total
            /\ cm_last' = [op |-> "prune_context_if_needed", tokens |-> additional,
                           stored |-> FALSE, evicted |-> RolesOf(r.removed)]
            /\ UNCHANGED <<max_tokens, dpc_call, cmc_call, est_call, goals, gm_last>>

ClearContext ==
    /\ context_history' = clear_context.history
    /\ current_total_tokens' = clear_context.total
    /\ cm_last' = [op |-> "clear_context", tokens |-> 0, stored |-> FALSE, evicted |-> <<>>]
    /\ UNCHANGED <<max_tokens, dpc_call, cmc_call, est_call, goals, gm_last>>

\* get_context(): lines 115-120 assign to no attribute of self
GetContext ==
    /\ cm_last' = [op |-> "get_context", tokens |-> 0, stored |-> FALSE, evicted |-> <<>>,
                   returned |-> get_context(context_history)]
    /\ UNCHANGED <<max_tokens, context_history, current_total_tokens, dpc_call, cmc_call, est_call, goals, gm_last>>

\* the caller mutates the list it got from get_context
CallerMutatesSnapshot ==
    /\ cm_last.op = "get_context"
    /\ cm_last.returned.messages # <<>>
    /\ \E mutation \in SnapshotMutations :
          /\ context_history' =
                 StoreAfterSnapshotMutation(context_history, cm_last.returned, mutation)
          /\ cm_last' = [op |-> "snapshot_mutated", tokens |-> 0, stored |-> FALSE,
                         evicted |-> <<>>,
                         returned |-> SnapshotAfterMutation(cm_last.returned, mutation)]
    /\ UNCHANGED <<max_tokens, current_total_tokens, dpc_call, cmc_call, est_call, goals, gm_last>>

NextCM ==
    AddMessage \/ PruneContextIfNeeded \/ ClearContext \/ GetContext \/ CallerMutatesSnapshot

SpecCM == InitCM /\ [][NextCM]_vars

(***************************************************************************)
(* DynamicPromptConstructor                                                *)
(* A component value is a str ([kind |-> "str", text]), a list of turn     *)
(* dicts ([kind |-> "turns", turns]) or a list of str ([kind |-> "docs",   *)
(* docs]); a turn is [role, content].                                      *)
(***************************************************************************)
Str_Newline == <<"\n">>
\* line 150 as it would read with "\n".join
Str_Separator_Single == <<"\n">>
\* line 150: the "\n\n" of the join
Str_Separator == <<"\n", "\n">>
Str_ColonSpace == <<":", " ">>
Prefix_User == <<"U", "s", "e", "r", ":", " ">>
Prefix_Instructions == <<"I", "n", "s", "t", "r", "u", "c", "t", "i", "o", "n", "s", ":", " ">>
Prefix_Context == <<"C", "o", "n", "t", "e", "x", "t", ":", " ">>

\* line 80: the default priority_order
DefaultPriorityOrder ==
    <<"user_query", "system_message", "task_instructions", "history", "retrieved_knowledge">>

\* line 89: `not components[key]`
IsEmptyValue(v) ==
    CASE v.kind = "str"   -> v.text = <<>>
      [] v.kind = "turns" -> v.turns = <<>>
      [] v.kind = "docs"  -> v.docs = <<>>

\* line 100: the rendered turn
TurnStr(turn) == Capitalize(turn.role) \o Str_ColonSpace \o turn.content \o Str_Newline

\* line 102: does the turn fit, measured on the joined block plus the turn?
TurnFits(tok, history_buffer, turn_str, current_tokens, maxTok) ==
    current_tokens + estimate_tokens(tok, Join(Str_Newline, history_buffer) \o turn_str) <= maxTok

\* line 106 with the break left out: the walk goes on to the older turns
WalkStopsAtOverflow_Never == FALSE

\* line 106: break at the first turn that does not fit
WalkStopsAtOverflow == TRUE

\* lines 99-106: the walk from the newest turn (index i) to the oldest
RECURSIVE HistoryWalk(_, _, _, _, _, _)
HistoryWalk(tok, turns, i, history_buffer, current_tokens, maxTok) ==
    IF i = 0 THEN history_buffer
    ELSE LET turn_str == TurnStr(turns[i])
         IN  IF TurnFits(tok, history_buffer, turn_str, current_tokens, maxTok)
             THEN HistoryWalk(tok, turns, i - 1, <<turn_str>> \o history_buffer,
                              current_tokens, maxTok)
             ELSE IF WalkStopsAtOverflow
                  THEN history_buffer
                  ELSE HistoryWalk(tok, turns, i - 1, history_buffer,
                                   current_tokens, maxTok)

\* lines 95-108: history_buffer for a 'history' list
HistoryBuffer(tok, turns, current_tokens, maxTok) ==
    HistoryWalk(tok, turns, Len(turns), <<>>, current_tokens, maxTok)

\* lines 93-114: temp_prompt_str
TempPromptStr(tok, key, v, current_tokens, maxTok) ==
    CASE key = "history" /\ v.kind = "turns" ->
             Join(Str_Newline, HistoryBuffer(tok, v.turns, current_tokens, maxTok))
      [] v.kind = "str" -> v.text
      [] v.kind = "docs" -> Join(Str_Newline, v.docs)

\* lines 117-129: formatted_component_str
FormatComponent(key, temp_prompt_str) ==
    CASE key = "user_query" -> Prefix_User \o temp_prompt_str
      [] key = "task_instructions" -> Prefix_Instructions \o temp_prompt_str
      [] key = "retrieved_knowledge" -> Prefix_Context \o temp_prompt_str
      [] OTHER -> temp_prompt_str

\* line 141: a component that is truncated rather than omitted
IsCriticalFirst(final_prompt_elements, key) ==
    final_prompt_elements = <<>> /\ (key = "user_query" \/ key = "system_message")

\* lines 143-144: the truncated form of a critical first component
TruncateCritical(formatted_component_str, maxTok, current_tokens) ==
    SlicePrefix(formatted_component_str, (maxTok - current_tokens) * 3)

\* line 133 as it would read with < for <=
ComponentFits_Strict(current_tokens, component_tokens, maxTok) ==
    current_tokens + component_tokens < maxTok

\* line 133: the component-level fit test
ComponentFits(current_tokens, component_tokens, maxTok) ==
    current_tokens + component_tokens <= maxTok

\* line 148 with the break left out: the loop goes on to the next key
StopsAfterOverflow_Never == FALSE

\* line 148: break after a component that does not fit
StopsAfterOverflow == TRUE

\* lines 88-148: one iteration of the loop, for priority_order[i].
\* acc: final_prompt_elements, the keys and priority_order indices they came from,
\* current_tokens,
\* stopped (the break was taken), overflow (the index the fit test failed at first),
\* truncated (a critical first component was cut), walks (for each walk of a
\* 'history' list: the history_buffer it ended with, the current_tokens it ran at
\* and the index of priority_order it ran for)
LoopBody(tok, components, maxTok, priority_order, i, acc0) ==
    LET key == priority_order[i]
    IN  IF key \notin DOMAIN components \/ IsEmptyValue(components[key]) THEN acc0
        ELSE
        LET acc == IF key = "history" /\ components[key].kind = "turns"
                   THEN [acc0 EXCEPT !.walks =
                            Append(@, [history_buffer |->
                                           HistoryBuffer(tok, components[key].turns,
                                                         acc0.current_tokens, maxTok),
                                       current_tokens |-> acc0.current_tokens,
                                       idx |-> i])]
                   ELSE acc0
            temp_prompt_str == TempPromptStr(tok, key, components[key], acc.current_tokens, maxTok)
            formatted_component_str == FormatComponent(key, temp_prompt_str)
            component_tokens == estimate_tokens(tok, formatted_component_str \o Str_Newline)
        IN  IF ComponentFits(acc.current_tokens, component_tokens, maxTok)
            THEN [acc EXCEPT !.elements = Append(@, formatted_component_str),
                             !.keys = Append(@, key),
                             !.idxs = Append(@, i),
                             !.current_tokens = @ + component_tokens]
            ELSE LET over == [acc EXCEPT !.stopped = StopsAfterOverflow,
                                         !.overflow = IF @ = 0 THEN i ELSE @]
                 IN  IF IsCriticalFirst(acc.elements, key)
                     THEN LET truncated_content ==
                                  TruncateCritical(formatted_component_str, maxTok,
                                                   acc.current_tokens)
                          IN  [over EXCEPT !.elements = Append(@, truncated_content),
                                           !.keys = Append(@, key),
                                           !.idxs = Append(@, i),
                                           !.current_tokens =
                                               @ + estimate_tokens(tok, truncated_content \o Str_Newline),
                                           !.truncated = TRUE]
                     ELSE over

\* lines 88-148: the loop over priority_order
RECURSIVE PriorityLoop(_, _, _, _, _, _)
PriorityLoop(tok, components, maxTok, priority_order, i, acc) ==
    IF i > Len(priority_order) \/ acc.stopped THEN acc
    ELSE PriorityLoop(tok, components, maxTok, priority_order, i + 1,
                      LoopBody(tok, components, maxTok, priority_order, i, acc))

\* lines 155-162 as they would read without the fallback cut
FinalTruncation_Skipped(tok, final_prompt, maxTok) == final_prompt

\* lines 155-162: the fallback cut of a prompt found over budget
FinalTruncation(tok, final_prompt, maxTok) ==
    IF estimate_tokens(tok, final_prompt) > maxTok
    THEN IF tok = "none"
         THEN LET chars_to_keep == maxTok * 3
              IN  IF Len(final_prompt) > chars_to_keep
                  THEN SlicePrefix(final_prompt, chars_to_keep)
                  ELSE final_prompt
         ELSE final_prompt
    ELSE final_prompt

\* DynamicPromptConstructor.build_and_optimize_prompt: the returned prompt, with
\* the loop's final_prompt_elements and bookkeeping
build_and_optimize_prompt(tok, components, maxTok, priority_order) ==
    LET acc == PriorityLoop(tok, components, maxTok, priority_order, 1,
                   [elements |-> <<>>, keys |-> <<>>, idxs |-> <<>>, current_tokens |-> 0,
                    stopped |-> FALSE, overflow |-> 0, truncated |-> FALSE,
                    walks |-> <<>>])
        joined == Strip(Join(Str_Separator, acc.elements))
    IN  [prompt |-> FinalTruncation(tok, joined, maxTok),
         joined |-> joined,
         elements |-> acc.elements, keys |-> acc.keys, idxs |-> acc.idxs,
         current_tokens |-> acc.current_tokens,
         overflow |-> acc.overflow, truncated |-> acc.truncated,
         walks |-> acc.walks]

\* model bounds: the longest component text and the largest prompt budget
MaxTextLen == 6
MaxBudget == 4

\* "aaa..." of length n
Solid(n) == [i \in 1..n |-> "a"]
\* "a a a ..." of length n
Spaced(n) == [i \in 1..n |-> IF i % 2 = 1 THEN "a" ELSE " "]
\* the component texts: runs of one word and runs of one-letter words
Texts == {Solid(n) : n \in 0..MaxTextLen} \cup {Spaced(n) : n \in 0..MaxTextLen}

StrVal(s) == [kind |-> "str", text |-> s]
Turn(role, content) == [role |-> role, content |-> content]

\* the histories passed as the 'history' component
Histories ==
    {<<>>,
     <<Turn(Role_user, Solid(1))>>,
     <<Turn(Role_user, Solid(1)), Turn(Role_assistant, Spaced(3))>>,
     <<Turn(Role_system, Solid(6)), Turn(Role_user, Spaced(3)), Turn(Role_assistant, Solid(1))>>,
     <<Turn(Role_user, Solid(2)), Turn(Role_user, <<>>), Turn(Role_user, Solid(1))>>}

\* the components maps: user_query, system_message and history always present
\* (possibly empty), task_instructions and retrieved_knowledge present or absent
ComponentMaps ==
    {[k \in {"user_query", "system_message", "history"} \cup extra |->
        CASE k = "user_query" -> StrVal(uq)
          [] k = "system_message" -> StrVal(sm)
          [] k = "history" -> [kind |-> "turns", turns |-> h]
          [] k = "task_instructions" -> StrVal(Solid(2))
          [] k = "retrieved_knowledge" -> [kind |-> "docs", docs |-> <<Solid(1), Spaced(3)>>]] :
      uq \in Texts, sm \in Texts, h \in Histories,
      extra \in SUBSET {"task_instructions", "retrieved_knowledge"}}

\* the priority_order arguments (None stands for the default order)
PriorityOrders ==
    {DefaultPriorityOrder,
     <<"user_query", "system_message">>,
     <<"system_message", "history", "user_query">>,
     <<"history", "task_instructions", "retrieved_knowledge", "system_message", "missing_key">>,
     <<"user_query", "system_message", "user_query">>}

\* a call about to be made: the constructor's tokenizer_func and the arguments
InitDPC ==
    /\ max_tokens = 0
    /\ context_history = <<>>
    /\ current_total_tokens = 0
    /\ cm_last = [op |-> "init", tokens |-> 0, stored |-> FALSE, evicted |-> <<>>]
    /\ dpc_call \in [op : {"called"}, tok : Tokenizers, components : ComponentMaps,
                     max_tokens : 0..MaxBudget, priority_order : PriorityOrders]
    /\ cmc_call = NoCall
    /\ est_call = NoCall
    /\ goals = <<>>
    /\ gm_last = NoCall

\* the call runs to its return
BuildAndOptimizePrompt ==
    /\ dpc_call.op = "called"
    /\ dpc_call' = [op |-> "returned", tok |-> dpc_call.tok,
                    components |-> dpc_call.components,
                    max_tokens |-> dpc_call.max_tokens,
                    priority_order |-> dpc_call.priority_order,
                    result |-> build_and_optimize_prompt(dpc_call.tok, dpc_call.components,
                                  dpc_call.max_tokens, dpc_call.priority_order)]
    /\ UNCHANGED <<max_tokens, context_history, current_total_tokens, cm_last, cmc_call, est_call, goals, gm_last>>

NextDPC == BuildAndOptimizePrompt

SpecDPC == InitDPC /\ [][NextDPC]_vars

(***************************************************************************)
(* ContextualMemoryCondenserAI                                             *)
(* data is a str ([kind |-> "str", text]), a list of message dicts         *)
(* ([kind |-> "turns", turns]) or a list of str ([kind |-> "docs", docs]); *)
(* relevance_query is None ([kind |-> "none"]) or a str.                   *)
(***************************************************************************)
NoneVal == [kind |-> "none"]

\* the truth value Python gives a str-or-None argument
Truthy(v) == v.kind = "str" /\ v.text # <<>>

\* line 98: f"{role}: {content}" of every message, joined by "\n"
RECURSIVE MessageLines(_)
MessageLines(turns) ==
    IF turns = <<>> THEN <<>>
    ELSE <<Head(turns).role \o Str_ColonSpace \o Head(turns).content>>
         \o MessageLines(Tail(turns))

\* lines 94-102: raw_text_representation
RawTextRepresentation(data) ==
    CASE data.kind = "str"   -> data.text
      [] data.kind = "turns" -> Join(Str_Newline, MessageLines(data.turns))
      [] data.kind = "docs"  -> Join(Str_Newline, data.docs)

\* int(target_token_count * 3.5): float product truncated toward zero
IntTimes3_5(n) == IF n >= 0 THEN (7 * n) \div 2 ELSE 0 - ((7 * (0 - n)) \div 2)

\* int(target_token_count * 3.0)
IntTimes3(n) == 3 * n

\* line 107 as it would read with one token of slack
AlreadyWithinTarget_Lenient(current_tokens, target_token_count) ==
    current_tokens <= target_token_count + 1

\* line 107 as it would read with < for <=
AlreadyWithinTarget_Strict(current_tokens, target_token_count) ==
    current_tokens < target_token_count

\* line 107: data already within the target
AlreadyWithinTarget(current_tokens, target_token_count) ==
    current_tokens <= target_token_count

\* lines 111-127: estimated_chars_to_keep of the branch taken
EstimatedCharsToKeep(has_llm, relevance_query, target_token_count, strategy) ==
    IF strategy = "truncate_or_summarize_placeholder" /\ has_llm /\ Truthy(relevance_query)
    THEN IntTimes3(target_token_count)
    ELSE IntTimes3_5(target_token_count)

\* line 132 as it would read without the factor 1.2
OverTargetByFifth_AnyExcess(final_estimated_tokens, target_token_count) ==
    final_estimated_tokens > target_token_count

\* line 132: final_estimated_tokens > target_token_count * 1.2
OverTargetByFifth(final_estimated_tokens, target_token_count) ==
    5 * final_estimated_tokens > 6 * target_token_count

\* lines 134-135 as they would read in a loop that cuts one character more until
\* the estimate is within the target: the longest prefix of the cut text that
\* fits (or the empty text), each character removed counted as one more cut
HardCut_UntilFits(tok, condensed_text, target_token_count) ==
    LET cut == SlicePrefix(condensed_text, IntTimes3(target_token_count))
        Fits(n) == estimate_tokens(tok, SubSeq(cut, 1, n)) <= target_token_count
        kept == CHOOSE n \in 0..Len(cut) :
                    /\ n = 0 \/ Fits(n)
                    /\ \A m \in (n + 1)..Len(cut) : ~Fits(m)
    IN  [text |-> SubSeq(cut, 1, kept), cuts |-> 1 + Len(cut) - kept]

\* lines 134-135: the hard cut, made once; its result is re-estimated for the log
\* (line 136) and not tested again
HardCut(tok, condensed_text, target_token_count) ==
    [text |-> SlicePrefix(condensed_text, IntTimes3(target_token_count)), cuts |-> 1]

\* line 87 as it would read if the guard were dropped
NoData_Never(data) == FALSE

\* line 87: not data
NoData(data) == IsEmptyValue(data)

\* lines 112-119: the branch for a configured llm_interface holds the generate_text
\* call only as a comment (lines 115-116), so no path calls the collaborator
SummarizerInvoked(has_llm, relevance_query, strategy) == FALSE

\* ContextualMemoryCondenserAI.condense_information: the returned text, with the
\* path taken ("empty" line 89, "short" line 109, "condensed" line 139), whether the
\* hard cut of lines 132-137 ran, the raw text representation, its estimate
\* (line 104), and the number of _estimate_tokens calls, generate_text calls,
\* truncation passes (lines 117-127) and hard cuts (lines 134-135) made
condense_information(tok, has_llm, data, relevance_query, target_token_count, strategy) ==
    IF NoData(data)
    THEN [text |-> <<>>, path |-> "empty", hard_cut |-> FALSE, raw |-> <<>>,
          current_tokens |-> 0, estimator_calls |-> 0, llm_calls |-> 0,
          truncations |-> 0, hard_cuts |-> 0]
    ELSE
    LET raw_text_representation == RawTextRepresentation(data)
        current_tokens == estimate_tokens(tok, raw_text_representation)
    IN  IF AlreadyWithinTarget(current_tokens, target_token_count)
        THEN [text |-> raw_text_representation, path |-> "short", hard_cut |-> FALSE,
              raw |-> raw_text_representation, current_tokens |-> current_tokens,
              estimator_calls |-> 1, llm_calls |-> 0,
              truncations |-> 0, hard_cuts |-> 0]
        ELSE
        LET llm_calls ==
                IF SummarizerInvoked(has_llm, relevance_query, strategy) THEN 1 ELSE 0
            condensed_text ==
                SlicePrefix(raw_text_representation,
                            EstimatedCharsToKeep(has_llm, relevance_query,
                                                 target_token_count, strategy))
            final_estimated_tokens == estimate_tokens(tok, condensed_text)
        IN  IF OverTargetByFifth(final_estimated_tokens, target_token_count)
            THEN LET cut == HardCut(tok, condensed_text, target_token_count)
                 IN  [text |-> Strip(cut.text),
                      path |-> "condensed", hard_cut |-> TRUE,
                      raw |-> raw_text_representation,
                      current_tokens |-> current_tokens,
                      estimator_calls |-> 2 + cut.cuts,
                      llm_calls |-> llm_calls, truncations |-> 1, hard_cuts |-> cut.cuts]
            ELSE [text |-> Strip(condensed_text),
                  path |-> "condensed", hard_cut |-> FALSE, raw |-> raw_text_representation,
                  current_tokens |-> current_tokens, estimator_calls |-> 2,
                  llm_calls |-> llm_calls, truncations |-> 1, hard_cuts |-> 0]

\* lines 112-119 hold no try/except: an exception of a generate_text call that was
\* made leaves condense_information through its caller
RaisesToCaller(llm_raises, result) == llm_raises /\ result.llm_calls > 0

\* model bounds: the longest data text and the largest target_token_count
MaxDataLen == 11
MaxTarget == 5

\* the data arguments: texts of one word or of one-letter words, and message lists
CondenserData ==
    {StrVal(Solid(n)) : n \in 0..MaxDataLen} \cup {StrVal(Spaced(n)) : n \in 0..MaxDataLen}
    \cup {[kind |-> "turns", turns |-> h] : h \in Histories}

\* the relevance_query arguments
RelevanceQueries == {NoneVal, StrVal(<<>>), StrVal(Solid(1))}

\* the strategy arguments
Strategies == {"truncate_or_summarize_placeholder", "other"}

\* a call about to be made: the condenser's collaborators (the tokenizer_func, whether
\* an llm_interface is configured and whether its generate_text raises when called)
\* and the arguments
InitCMC ==
    /\ max_tokens = 0
    /\ context_history = <<>>
    /\ current_total_tokens = 0
    /\ cm_last = [op |-> "init", tokens |-> 0, stored |-> FALSE, evicted |-> <<>>]
    /\ dpc_call = NoCall
    /\ est_call = NoCall
    /\ goals = <<>>
    /\ gm_last = NoCall
    /\ cmc_call \in [op : {"called"}, tok : Tokenizers, has_llm : BOOLEAN,
                     llm_raises : BOOLEAN,
                     data : CondenserData, relevance_query : RelevanceQueries,
                     target_token_count : (0 - 1)..MaxTarget, strategy : Strategies]
    /\ cmc_call.llm_raises => cmc_call.has_llm

\* the call runs to its return, or to the exception that leaves it
CondenseInformation ==
    /\ cmc_call.op = "called"
    /\ LET result == condense_information(cmc_call.tok, cmc_call.has_llm,
                          cmc_call.data, cmc_call.relevance_query,
                          cmc_call.target_token_count, cmc_call.strategy)
       IN  cmc_call' = [op |-> "returned", tok |-> cmc_call.tok,
                        has_llm |-> cmc_call.has_llm, llm_raises |-> cmc_call.llm_raises,
                        data |-> cmc_call.data, relevance_query |-> cmc_call.relevance_query,
                        target_token_count |-> cmc_call.target_token_count,
                        strategy |-> cmc_call.strategy,
                        raised |-> RaisesToCaller(cmc_call.llm_raises, result),
                        result |-> result]
    /\ UNCHANGED <<max_tokens, context_history, current_total_tokens, cm_last, dpc_call, est_call, goals, gm_last>>

NextCMC == CondenseInformation

SpecCMC == InitCMC /\ [][NextCMC]_vars

\* the call, once made, is run: condense_information is synchronous code that the
\* caller's thread executes
FairSpecCMC == SpecCMC /\ WF_vars(CondenseInformation)

(***************************************************************************)
(* The character-ratio estimators, called on two texts and on their        *)
(* concatenation                                                           *)
(***************************************************************************)
\* the components that estimate with no tokenizer injected
EstimatorOwners == {"context_manager", "prompt_constructor", "condenser"}

\* _estimate_tokens of the component, no tokenizer_func injected
FallbackEstimate(owner, text) ==
    IF owner = "context_manager" THEN CM_estimate_tokens(text)
    ELSE estimate_tokens("none", text)

\* model bound: the longest text estimated
MaxEstLen == 8

\* the texts estimated
EstTexts == {Solid(n) : n \in 0..MaxEstLen} \cup {Spaced(n) : n \in 0..MaxEstLen}

\* the calls about to be made: the component and the two texts
InitEst ==
    /\ max_tokens = 0
    /\ context_history = <<>>
    /\ current_total_tokens = 0
    /\ cm_last = [op |-> "init", tokens |-> 0, stored |-> FALSE, evicted |-> <<>>]
    /\ dpc_call = NoCall
    /\ cmc_call = NoCall
    /\ goals = <<>>
    /\ gm_last = NoCall
    /\ est_call \in [op : {"called"}, owner : EstimatorOwners, a : EstTexts, b : EstTexts]

\* the three estimates are taken
EstimateTokens ==
    /\ est_call.op = "called"
    /\ est_call' = [op |-> "returned", owner |-> est_call.owner,
                    a |-> est_call.a, b |-> est_call.b,
                    of_a |-> FallbackEstimate(est_call.owner, est_call.a),
                    of_b |-> FallbackEstimate(est_call.owner, est_call.b),
                    of_ab |-> FallbackEstimate(est_call.owner, est_call.a \o est_call.b)]
    /\ UNCHANGED <<max_tokens, context_history, current_total_tokens, cm_last,
                   dpc_call, cmc_call, goals, gm_last>>

NextEst == EstimateTokens

SpecEst == InitEst /\ [][NextEst]_vars

(***************************************************************************)
(* GoalManager                                                             *)
(* goals is the dict of the class as the sequence of its items, in         *)
(* insertion order; a goal is its id with the fields the dict holds.       *)
(***************************************************************************)
\* GoalStatus (lines 9-14)
Status_PENDING == "pending"
Status_ACTIVE == "active"
Status_COMPLETED == "completed"
Status_FAILED == "failed"
Status_PAUSED == "paused"
GoalStatusValues ==
    {Status_PENDING, Status_ACTIVE, Status_COMPLETED, Status_FAILED, Status_PAUSED}

\* self.goals.get(goal_id): the index of the goal in goals, 0 for None
RECURSIVE GoalIndex(_, _, _)
GoalIndex(gs, goal_id, i) ==
    IF i > Len(gs) THEN 0
    ELSE IF gs[i].id = goal_id THEN i ELSE GoalIndex(gs, goal_id, i + 1)

\* an Optional[str] goal_id argument that is a str (None is NoneVal)
GoalIdStr(text) == [kind |-> "str", text |-> text]

\* an Optional[List[str]] dependencies argument that is a list (None is NoneVal)
DependencyList(items) == [kind |-> "list", items |-> items]

\* line 52: goal_id if goal_id else str(uuid.uuid4()); None and "" are both
\* falsy, and uuid is the string the uuid4 call gives
NewGoalId(goal_id, uuid) ==
    IF goal_id.kind = "str" /\ goal_id.text # "" THEN goal_id.text ELSE uuid

\* line 62: dependencies if dependencies else []
DependenciesOrEmpty(dependencies) ==
    IF dependencies.kind = "list" THEN dependencies.items ELSE <<>>

\* GoalManager.add_goal: the dict after the call and the value returned or the
\* exception raised; uuid is the value of str(uuid.uuid4()) of line 52, which is
\* used only when goal_id is None or ""
add_goal(gs, description, priority, goal_id, dependencies, uuid) ==
    IF description = ""
    THEN [goals |-> gs, returned |-> "ValueError"]
    ELSE LET new_goal_id == NewGoalId(goal_id, uuid)
         IN  IF GoalIndex(gs, new_goal_id, 1) # 0
             THEN [goals |-> gs, returned |-> new_goal_id]
             ELSE [goals |-> Append(gs, [id |-> new_goal_id,
                                         description |-> description,
                                         priority |-> priority,
                                         status |-> Status_PENDING,
                                         dependencies |-> DependenciesOrEmpty(dependencies)]),
                   returned |-> new_goal_id]

\* GoalManager.update_goal_status: the dict after the call and the bool returned
update_goal_status(gs, goal_id, status) ==
    LET i == GoalIndex(gs, goal_id, 1)
    IN  IF i = 0 THEN [goals |-> gs, returned |-> FALSE]
        ELSE IF status \notin GoalStatusValues THEN [goals |-> gs, returned |-> FALSE]
        ELSE [goals |-> [gs EXCEPT ![i].status = status], returned |-> TRUE]

\* lines 163-169: the loop over a goal's dependencies, with its break
RECURSIVE DependenciesMet(_, _)
DependenciesMet(gs, dependencies) ==
    IF dependencies = <<>> THEN TRUE
    ELSE LET d == GoalIndex(gs, Head(dependencies), 1)
         IN  IF d = 0 \/ gs[d].status # Status_COMPLETED
             THEN FALSE
             ELSE DependenciesMet(gs, Tail(dependencies))

\* lines 160-171: actionable_goals, in the order of the dict
RECURSIVE ActionableGoals(_, _)
ActionableGoals(gs, i) ==
    IF i > Len(gs) THEN <<>>
    ELSE IF gs[i].status = Status_PENDING /\ DependenciesMet(gs, gs[i].dependencies)
         THEN <<gs[i]>> \o ActionableGoals(gs, i + 1)
         ELSE ActionableGoals(gs, i + 1)

\* g put into a list sorted by descending priority, after the goals that do not
\* rank below it
RECURSIVE InsertByPriority(_, _)
InsertByPriority(sorted, g) ==
    IF sorted = <<>> THEN <<g>>
    ELSE IF Head(sorted).priority >= g.priority
         THEN <<Head(sorted)>> \o InsertByPriority(Tail(sorted), g)
         ELSE <<g>> \o sorted

RECURSIVE StableSortFrom(_, _, _)
StableSortFrom(list, i, sorted) ==
    IF i > Len(list) THEN sorted
    ELSE StableSortFrom(list, i + 1, InsertByPriority(sorted, list[i]))

\* line 176 as it would read with sort(key=...) followed by reverse(): goals of
\* equal priority come out in the reverse of their order in the list
SortByPriorityDescending_ThenReversed(list) ==
    LET reversed == [i \in 1..Len(list) |-> list[Len(list) + 1 - i]]
    IN  StableSortFrom(reversed, 1, <<>>)

\* line 176: list.sort(key=priority, reverse=True), which keeps goals of equal
\* priority in their order in the list
SortByPriorityDescending(list) == StableSortFrom(list, 1, <<>>)

\* GoalManager.get_next_goal_placeholder: the dict returned, or None
get_next_goal_placeholder(gs) ==
    LET actionable_goals == ActionableGoals(gs, 1)
    IN  IF actionable_goals = <<>> THEN NoneVal
        ELSE Head(SortByPriorityDescending(actionable_goals))

\* model bound: the number of goals in the dict
MaxGoals == 3

\* the ids of the goals of the dict
IdsOf(gs) == {gs[i].id : i \in 1..Len(gs)}

\* the k-th of the strings uuid4 gives: distinct from each other and from every
\* id a caller writes
Uuid(k) == "uuid-" \o ToString(k)

\* the uuid4 strings that calls made within the bound on the dict can meet
Uuids == {Uuid(k) : k \in 1..(MaxGoals + 1)}

\* the add_goal calls in a state of the dict. As in the module's own scenario
\* (lines 236-239) goals are added without a goal_id and depend on ids that
\* earlier calls returned; besides those, a call with an explicit goal_id, one
\* with goal_id "" that depends on an id never added, and one with an empty
\* description
GoalCalls(gs) ==
    {[description |-> "Setup project environment", priority |-> 10,
      goal_id |-> NoneVal, dependencies |-> NoneVal]}
    \cup {[description |-> "Develop core feature A", priority |-> 5,
            goal_id |-> NoneVal, dependencies |-> DependencyList(<<id>>)] :
           id \in IdsOf(gs)}
    \cup {[description |-> "Research alternative solutions", priority |-> 5,
            goal_id |-> GoalIdStr("g3"), dependencies |-> DependencyList(<<>>)],
           [description |-> "Write documentation for feature A", priority |-> 10,
            goal_id |-> GoalIdStr(""), dependencies |-> DependencyList(<<"g3", "g9">>)],
           [description |-> "", priority |-> 0, goal_id |-> NoneVal,
            dependencies |-> NoneVal]}

\* the string uuid4 gives to a call made in a state of the dict: one that is the
\* id of no goal, which exists in every state. Goals are told apart only by
\* comparing ids, so which unused string it is changes no result; the call draws
\* the first unused one.
FreshUuids(gs) ==
    {Uuid(k) : k \in {j \in 1..(Len(gs) + 1) :
        /\ Uuid(j) \notin IdsOf(gs)
        /\ \A i \in 1..(j - 1) : Uuid(i) \in IdsOf(gs)}}

\* the goal_id arguments of update_goal_status: the ids that add_goal returned,
\* and one never added
GoalIds(gs) == IdsOf(gs) \cup {"g9"}

\* the status arguments of update_goal_status: enum members (the scenario's
\* COMPLETED, PENDING to reopen a goal, FAILED) and a plain str
StatusArguments ==
    {Status_PENDING, Status_COMPLETED, Status_FAILED, "not a GoalStatus"}

InitGM ==
    /\ max_tokens = 0
    /\ context_history = <<>>
    /\ current_total_tokens = 0
    /\ cm_last = [op |-> "init", tokens |-> 0, stored |-> FALSE, evicted |-> <<>>]
    /\ dpc_call = NoCall
    /\ cmc_call = NoCall
    /\ est_call = NoCall
    /\ goals = <<>>
    /\ gm_last = NoCall

\* add_goal(...): uuid4 gives a string that is the id of no goal
AddGoal ==
    \E c \in GoalCalls(goals), uuid \in FreshUuids(goals) :
        LET r == add_goal(goals, c.description, c.priority, c.goal_id, c.dependencies,
                          uuid)
        IN  /\ Len(r.goals) <= MaxGoals
            /\ goals' = r.goals
            /\ gm_last' = [op |-> "add_goal", returned |-> r.returned]
            /\ UNCHANGED <<max_tokens, context_history, current_total_tokens, cm_last,
                           dpc_call, cmc_call, est_call>>

UpdateGoalStatus ==
    \E goal_id \in GoalIds(goals), status \in StatusArguments :
        LET r == update_goal_status(goals, goal_id, status)
        IN  /\ goals' = r.goals
            /\ gm_last' = [op |-> "update_goal_status", returned |-> r.returned]
            /\ UNCHANGED <<max_tokens, context_history, current_total_tokens, cm_last,
                           dpc_call, cmc_call, est_call>>

\* get_next_goal_placeholder(): lines 152-178 assign to no attribute of self and to
\* no goal dict
GetNextGoalPlaceholder ==
    /\ gm_last' = [op |-> "get_next_goal_placeholder",
                   returned |-> get_next_goal_placeholder(goals)]
    /\ UNCHANGED <<max_tokens, context_history, current_total_tokens, cm_last,
                   dpc_call, cmc_call, est_call, goals>>

NextGM == AddGoal \/ UpdateGoalStatus \/ GetNextGoalPlaceholder

SpecGM == InitGM /\ [][NextGM]_vars

(***************************************************************************)
(* ContextManager: properties                                              *)
(***************************************************************************)
\* the messages of the previous history that a step kept
KeptAfter(history_after, stored) ==
    IF stored THEN SubSeq(history_after, 1, Len(history_after) - 1) ELSE history_after

Suffix(h, k) == SubSeq(h, k + 1, Len(h))

Msg(role, content) ==
    [role |-> role, content |-> content, tokens |-> CM_estimate_tokens(content)]

\* C1: with max_tokens >= 0, get_current_token_count() <= max_tokens after every
\* add_message, prune_context_if_needed and clear_context call.
C1_TokenCountWithinMax ==
    get_current_token_count(current_total_tokens) <= max_tokens

\* C1 witness: an add_message that evicted, stored, and filled the budget exactly.
C1_Witness ==
    /\ cm_last.op = "add_message" /\ cm_last.stored /\ cm_last.evicted # <<>>
    /\ max_tokens = 10 /\ get_current_token_count(current_total_tokens) = 10

\* C4: after add_message or prune_context_if_needed, the messages kept from before
\* the call are a suffix of the previous history, in unchanged order, whatever their roles.
C4_Step ==
    cm_last'.op \in {"add_message", "prune_context_if_needed"} =>
        LET kept == KeptAfter(context_history', cm_last'.stored)
            k == Len(context_history) - Len(kept)
        IN  /\ k >= 0
            /\ kept = Suffix(context_history, k)
            /\ cm_last'.evicted = [i \in 1..k |-> context_history[i].role]
C4_EvictionIsFifo == [][C4_Step]_vars

\* C4 witness: an add_message evicted the system message at index 0 and nothing
\* else, and newer messages of other roles survived.
C4_Witness ==
    /\ cm_last.op = "add_message" /\ cm_last.stored
    /\ cm_last.evicted = <<Role_system>>
    /\ Len(context_history) >= 3

\* C5: current_total_tokens is the sum of the tokens fields of context_history.
C5_TotalIsSum == current_total_tokens = SumTokens(context_history)

\* C5 witness: a direct prune removed some but not all messages.
C5_Witness ==
    /\ cm_last.op = "prune_context_if_needed" /\ cm_last.evicted # <<>>
    /\ context_history # <<>> /\ current_total_tokens > 0

\* the least number of oldest messages whose removal lets cost fit (all of them
\* when no removal does)
LeastEviction(history, total, cost, maxTok) ==
    LET fits(k) == total - SumTokens(SubSeq(history, 1, k)) + cost <= maxTok
    IN  IF \E k \in 0..Len(history) : fits(k)
        THEN CHOOSE k \in 0..Len(history) : fits(k) /\ \A j \in 0..(k - 1) : ~fits(j)
        ELSE Len(history)

Scenario_Before ==
    <<Msg(Role_user, Txt_Hello), Msg(Role_assistant, Txt_World), Msg(Role_user, Txt_ThisIsATest)>>
Scenario_After ==
    <<Msg(Role_assistant, Txt_World), Msg(Role_user, Txt_ThisIsATest),
      Msg(Role_assistant, Txt_AnotherOne)>>

\* C7: add_message evicts exactly the shortest prefix of oldest messages whose
\* removal makes current_total_tokens + cost <= max_tokens; with max_tokens = 10,
\* adding "Another one" to [Hello, World, This is a test] evicts only "Hello" and
\* leaves [World, This is a test, Another one] with 9 tokens.
C7_Step ==
    cm_last'.op = "add_message" =>
        LET kept == KeptAfter(context_history', cm_last'.stored)
            n == LeastEviction(context_history, current_total_tokens,
                               cm_last'.tokens, max_tokens)
        IN  /\ kept = Suffix(context_history, n)
            /\ (max_tokens = 10 /\ context_history = Scenario_Before /\ cm_last'.tokens = 3)
                 => (context_history' = Scenario_After /\ current_total_tokens' = 9)
C7_EvictsShortestPrefix == [][C7_Step]_vars

\* C7 witness: the end of the scenario.
C7_Witness ==
    /\ max_tokens = 10 /\ cm_last.op = "add_message" /\ cm_last.evicted = <<Role_user>>
    /\ context_history = Scenario_After /\ current_total_tokens = 9

\* C8: on an empty store, add_message of a message whose cost alone exceeds
\* max_tokens stores nothing: the store stays empty and the token count is 0.
C8_Step ==
    (context_history = <<>> /\ cm_last'.op = "add_message" /\ cm_last'.tokens > max_tokens)
        => /\ context_history' = <<>>
           /\ get_context(context_history').messages = <<>>
           /\ get_current_token_count(current_total_tokens') = 0
           /\ ~cm_last'.stored
C8_OversizedRejectedOnEmpty == [][C8_Step]_vars

\* C8 witness: the 76-character message was offered to an empty store of 10 tokens.
C8_Witness ==
    /\ cm_last.op = "add_message" /\ cm_last.tokens = 19 /\ max_tokens = 10
    /\ ~cm_last.stored /\ cm_last.evicted = <<>>
    /\ context_history = <<>> /\ current_total_tokens = 0

(***************************************************************************)
(* DynamicPromptConstructor: properties                                    *)
(***************************************************************************)
Returned == dpc_call.op = "returned"

\* the component of priority_order[i], rendered as the loop renders it when
\* current_tokens are already committed
FormattedAt(i, current_tokens) ==
    LET key == dpc_call.priority_order[i]
    IN  FormatComponent(key, TempPromptStr(dpc_call.tok, key, dpc_call.components[key],
                                           current_tokens, dpc_call.max_tokens))

\* priority_order[i] names a component with content
Supplied(i) ==
    LET key == dpc_call.priority_order[i]
    IN  key \in DOMAIN dpc_call.components /\ ~IsEmptyValue(dpc_call.components[key])

\* C2: for every components map, priority_order and max_tokens >= 0 and every
\* token-cost function, the returned prompt re-estimates to at most max_tokens.
C2_PromptWithinBudget ==
    Returned => estimate_tokens(dpc_call.tok, dpc_call.result.prompt) <= dpc_call.max_tokens

\* C3: once a component of priority_order does not fit, no later key of
\* priority_order contributes to the returned prompt: every committed element comes
\* from an index up to the overflow (the overflowing one only as a truncated critical
\* first component), and the prompt is the one the keys up to the overflow alone give.
C3_NothingAfterOverflow ==
    (Returned /\ dpc_call.result.overflow # 0) =>
        LET r == dpc_call.result
            o == r.overflow
        IN  /\ \A n \in 1..Len(r.idxs) : r.idxs[n] <= o /\ (r.idxs[n] = o => r.truncated)
            /\ r.prompt = build_and_optimize_prompt(dpc_call.tok, dpc_call.components,
                              dpc_call.max_tokens, SubSeq(dpc_call.priority_order, 1, o)).prompt

\* C3 witness: a non-critical component was omitted after others were committed,
\* and a later key names a component that would still have fit.
C3_Witness ==
    /\ Returned /\ dpc_call.result.overflow # 0 /\ ~dpc_call.result.truncated
    /\ dpc_call.result.elements # <<>>
    /\ \E j \in (dpc_call.result.overflow + 1)..Len(dpc_call.priority_order) :
          /\ Supplied(j)
          /\ Len(FormattedAt(j, dpc_call.result.current_tokens)) > 0
          /\ dpc_call.result.current_tokens
               + estimate_tokens(dpc_call.tok,
                     FormattedAt(j, dpc_call.result.current_tokens) \o Str_Newline)
               <= dpc_call.max_tokens

\* the first index of priority_order that names a component with content (0 if none)
FirstSupplied ==
    IF \E i \in 1..Len(dpc_call.priority_order) : Supplied(i)
    THEN CHOOSE i \in 1..Len(dpc_call.priority_order) :
             Supplied(i) /\ \A j \in 1..(i - 1) : ~Supplied(j)
    ELSE 0

\* the first component to be committed is critical and its formatted cost exceeds max_tokens
CriticalFirstOverflows ==
    /\ FirstSupplied # 0
    /\ dpc_call.priority_order[FirstSupplied] \in {"user_query", "system_message"}
    /\ estimate_tokens(dpc_call.tok, FormattedAt(FirstSupplied, 0) \o Str_Newline)
         > dpc_call.max_tokens

\* C9: when the first component to be committed is critical and its formatted cost
\* exceeds max_tokens, the prompt holds a truncated form of it that fits the budget
\* and no other component.
C9_CriticalFirstTruncatedToFit ==
    (Returned /\ CriticalFirstOverflows) =>
        LET r == dpc_call.result
            full == FormattedAt(FirstSupplied, 0)
        IN  /\ r.idxs = <<FirstSupplied>>
            /\ Len(r.elements) = 1
            /\ r.elements[1] = SubSeq(full, 1, Len(r.elements[1]))
            /\ r.joined = Strip(r.elements[1])
            /\ estimate_tokens(dpc_call.tok, r.elements[1]) <= dpc_call.max_tokens

(***************************************************************************)
(* ContextualMemoryCondenserAI: properties                                 *)
(***************************************************************************)
Condensed == cmc_call.op = "returned"

\* C6 as claimed: for every source, every target_token_count >= 1 and every
\* token-cost function, the returned text estimates to at most target_token_count.
C6_Original ==
    (Condensed /\ cmc_call.target_token_count >= 1) =>
        estimate_tokens(cmc_call.tok, cmc_call.result.text) <= cmc_call.target_token_count

\* C6 amended: for every source and target_token_count >= 1, the returned text
\* estimates to at most target_token_count under the character-ratio estimators
\* (the len // 4 fallback, also when the injected tokenizer raises, and the
\* ceil(len / 4) estimator main.py injects); under any token-cost function a text
\* that was over the target is returned with at most int(3.5 * target_token_count)
\* characters.
C6_CharacterCap ==
    (Condensed /\ cmc_call.target_token_count >= 1) =>
        /\ cmc_call.tok \in {"none", "raises", "ceil4"} =>
               estimate_tokens(cmc_call.tok, cmc_call.result.text)
                   <= cmc_call.target_token_count
        /\ estimate_tokens(cmc_call.tok, cmc_call.result.raw) > cmc_call.target_token_count =>
               Len(cmc_call.result.text) <= (7 * cmc_call.target_token_count) \div 2

\* C6 witness: an over-target text was truncated under the fallback estimator.
C6_Witness ==
    /\ Condensed /\ cmc_call.target_token_count >= 1 /\ cmc_call.tok = "none"
    /\ cmc_call.result.path = "condensed"
    /\ Len(cmc_call.result.text) < Len(cmc_call.result.raw)
    /\ cmc_call.result.text # <<>>

\* C10: whenever the estimate of the flat source text is <= target_token_count,
\* the result is the input (up to leading/trailing whitespace) and no truncation
\* or summarizer branch ran.
C10_IdentityOnShortInput ==
    (Condensed
       /\ estimate_tokens(cmc_call.tok, RawTextRepresentation(cmc_call.data))
            <= cmc_call.target_token_count) =>
        /\ Strip(cmc_call.result.text) = Strip(RawTextRepresentation(cmc_call.data))
        /\ Len(cmc_call.result.text) >= Len(Strip(RawTextRepresentation(cmc_call.data)))
        /\ cmc_call.result.path \in {"short", "empty"}
        /\ ~cmc_call.result.hard_cut

\* C10 witness: a text whose estimate equals the target came back whole.
C10_Witness ==
    /\ Condensed /\ cmc_call.data.kind = "str" /\ Len(cmc_call.data.text) >= 4
    /\ estimate_tokens(cmc_call.tok, cmc_call.data.text) = cmc_call.target_token_count
    /\ cmc_call.result.text = cmc_call.data.text
    /\ cmc_call.result.path = "short"

(***************************************************************************)
(* ContextualMemoryCondenserAI: the summarizer, the edge cases, the        *)
(* estimators                                                              *)
(***************************************************************************)
\* the flat source text of the call
FlatText == RawTextRepresentation(cmc_call.data)

\* ceil(len(text) / 4)
CeilQuarter(text) == (Len(text) + 3) \div 4

\* C11: whenever a summarizer (llm_interface) is configured and the flat source
\* text estimates above target_token_count, condense_information invokes the
\* summarizer (once, with the flat text, the target and the relevance hint) and its
\* output is the candidate result.
C11_SummarizerInvoked ==
    (Condensed /\ cmc_call.has_llm /\ ~NoData(cmc_call.data)
       /\ estimate_tokens(cmc_call.tok, FlatText) > cmc_call.target_token_count) =>
        cmc_call.result.llm_calls = 1

C13_NonPositiveTargetGivesEmpty ==
    (Condensed /\ cmc_call.target_token_count <= 0) =>
        /\ cmc_call.result.text = <<>>
        /\ ~cmc_call.raised

\* C14: on an empty source (empty string or empty list) condense_information
\* returns the empty string for every target and strategy, without invoking the
\* summarizer or the token estimator.
C14_EmptySourceShortCircuits ==
    (Condensed /\ (\/ cmc_call.data.kind = "str" /\ cmc_call.data.text = <<>>
                   \/ cmc_call.data.kind = "turns" /\ cmc_call.data.turns = <<>>)) =>
        /\ cmc_call.result.text = <<>>
        /\ cmc_call.result.llm_calls = 0
        /\ cmc_call.result.estimator_calls = 0
        /\ ~cmc_call.raised

\* C14 witness: an empty list given to a condenser with a summarizer, a relevance
\* query and a positive target came back as the empty string.
C14_Witness ==
    /\ Condensed /\ cmc_call.data.kind = "turns" /\ cmc_call.data.turns = <<>>
    /\ cmc_call.has_llm /\ Truthy(cmc_call.relevance_query)
    /\ cmc_call.target_token_count >= 1
    /\ cmc_call.result.path = "empty"
    /\ cmc_call.result.text = <<>>

\* C18: with no injected tokenizer the estimate every core component takes of a
\* text (the history store, and the constructor and the condenser, which share
\* one _estimate_tokens body) equals ceil(len(text) / 4), and the estimate of the
\* empty string is 0.
C18_FallbackIsCeilQuarter ==
    (Condensed /\ cmc_call.tok = "none" /\ cmc_call.result.path # "empty") =>
        /\ cmc_call.result.current_tokens = CeilQuarter(FlatText)
        /\ CM_estimate_tokens(FlatText) = CeilQuarter(FlatText)
        /\ estimate_tokens("none", <<>>) = 0
        /\ CM_estimate_tokens(<<>>) = 0

\* C19: _estimate_tokens never raises: when the injected tokenizer_func throws on a
\* text the call returns the character-ratio fallback len(text) // 4 of that same
\* text, and the enclosing condense call runs on to the result it has with no
\* tokenizer injected.
C19_TokenizerFailureFallsBack ==
    (Condensed /\ cmc_call.tok = "raises") =>
        /\ ~cmc_call.raised
        /\ estimate_tokens("raises", FlatText) = Len(FlatText) \div 4
        /\ estimate_tokens("raises", cmc_call.result.text)
             = Len(cmc_call.result.text) \div 4
        /\ cmc_call.result.path # "empty" =>
               cmc_call.result.current_tokens = Len(FlatText) \div 4
        /\ cmc_call.result =
               condense_information("none", cmc_call.has_llm, cmc_call.data,
                                    cmc_call.relevance_query,
                                    cmc_call.target_token_count, cmc_call.strategy)

\* C19 witness: under a tokenizer that raises, a text of two fallback tokens was
\* over the target and the call went on to condense it.
C19_Witness ==
    /\ Condensed /\ cmc_call.tok = "raises"
    /\ cmc_call.result.path = "condensed"
    /\ cmc_call.result.current_tokens = 2
    /\ cmc_call.result.estimator_calls >= 2
    /\ cmc_call.result.text # <<>>

(***************************************************************************)
(* DynamicPromptConstructor: the history walk                              *)
(***************************************************************************)
\* the rendered turns of the last m messages of a history, oldest first
RenderedSuffix(turns, m) ==
    [j \in 1..m |-> TurnStr(turns[Len(turns) - m + j])]

\* C20: the messages build_and_optimize_prompt takes from a 'history' component
\* are a contiguous suffix (the most recent messages) of the supplied list, in
\* chronological order: the walk from newest to oldest stops at the first message
\* that does not fit the budget and takes no older one, and the history block of
\* the prompt is those messages joined.
C20_HistoryIsRecentSuffix ==
    Returned =>
        /\ \A w \in 1..Len(dpc_call.result.walks) :
             LET turns == dpc_call.components["history"].turns
                 walk == dpc_call.result.walks[w]
                 m == Len(walk.history_buffer)
             IN  /\ m <= Len(turns)
                 /\ walk.history_buffer = RenderedSuffix(turns, m)
                 /\ m < Len(turns) =>
                        ~TurnFits(dpc_call.tok, walk.history_buffer,
                                  TurnStr(turns[Len(turns) - m]),
                                  walk.current_tokens, dpc_call.max_tokens)
        /\ \A i \in 1..Len(dpc_call.result.keys) :
             (dpc_call.result.keys[i] = "history"
                /\ dpc_call.components["history"].kind = "turns") =>
                 \E m \in 0..Len(dpc_call.components["history"].turns) :
                     dpc_call.result.elements[i] =
                         Join(Str_Newline,
                              RenderedSuffix(dpc_call.components["history"].turns, m))

\* C20 witness: of a history of three messages the walk took the two newest and
\* stopped at the oldest, and the block went into the prompt.
C20_Witness ==
    /\ Returned
    /\ Len(dpc_call.components["history"].turns) = 3
    /\ Len(dpc_call.result.walks) = 1
    /\ Len(dpc_call.result.walks[1].history_buffer) = 2
    /\ dpc_call.result.walks[1].history_buffer[1]
         # dpc_call.result.walks[1].history_buffer[2]
    /\ \E i \in 1..Len(dpc_call.result.keys) : dpc_call.result.keys[i] = "history"

(***************************************************************************)
(* ContextManager: get_context                                             *)
(***************************************************************************)
\* C17: get_context() is a pure read: it returns the stored messages as
\* {role, content} pairs in insertion order with the token cost stripped, the call
\* leaves context_history and current_total_tokens unchanged, and later mutation
\* of the returned list or its dicts does not change the store.
C17_Step ==
    /\ cm_last'.op = "get_context" =>
         /\ Len(cm_last'.returned.messages) = Len(context_history)
         /\ \A i \in 1..Len(context_history) :
                /\ DOMAIN cm_last'.returned.messages[i] = {"role", "content"}
                /\ cm_last'.returned.messages[i].role = context_history[i].role
                /\ cm_last'.returned.messages[i].content = context_history[i].content
         /\ context_history' = context_history
         /\ current_total_tokens' = current_total_tokens
    /\ cm_last'.op = "snapshot_mutated" =>
         /\ context_history' = context_history
         /\ current_total_tokens' = current_total_tokens

C17_GetContextIsPureRead == [][C17_Step]_vars

\* C17 witness: a snapshot of a store of two or more messages was taken and then
\* changed by the caller, and now differs from what the store holds.
C17_Witness ==
    /\ cm_last.op = "snapshot_mutated"
    /\ Len(context_history) >= 2
    /\ cm_last.returned.messages # get_context(context_history).messages
    /\ current_total_tokens = SumTokens(context_history)

(***************************************************************************)
(* DynamicPromptConstructor: order, join, budget under the fallback,       *)
(* the history block                                                       *)
(***************************************************************************)
\* p is a prefix of s
IsPrefixOf(p, s) == Len(p) <= Len(s) /\ p = SubSeq(s, 1, Len(p))

\* what C21 says of every call apart from "each at most once": the committed
\* elements come from increasing positions of priority_order, each from a key that
\* is in components with content, each the formatted component or (cut) a prefix
\* of it, and the prompt is their join by "\n\n", trimmed, or (cut) a prefix of it
CommittedInPriorityOrder ==
    LET r == dpc_call.result
    IN  /\ Len(r.keys) = Len(r.elements) /\ Len(r.idxs) = Len(r.elements)
        /\ \A n \in 1..Len(r.idxs) :
               /\ r.idxs[n] \in 1..Len(dpc_call.priority_order)
               /\ r.keys[n] = dpc_call.priority_order[r.idxs[n]]
               /\ Supplied(r.idxs[n])
               /\ n > 1 => r.idxs[n - 1] < r.idxs[n]
               /\ dpc_call.components[r.keys[n]].kind = "str" =>
                      IsPrefixOf(r.elements[n],
                                 FormatComponent(r.keys[n],
                                                 dpc_call.components[r.keys[n]].text))
        /\ r.joined = Strip(Join(<<"\n", "\n">>, r.elements))
        /\ IsPrefixOf(r.prompt, r.joined)
        /\ (~r.truncated /\ estimate_tokens(dpc_call.tok, r.joined) <= dpc_call.max_tokens) =>
               r.prompt = r.joined

\* C21 as claimed: the committed components appear in the prompt in the order of
\* priority_order, each at most once, joined by a double newline; keys that are
\* absent from components or have empty content contribute nothing.
C21_Original ==
    Returned =>
        /\ CommittedInPriorityOrder
        /\ \A m, n \in 1..Len(dpc_call.result.keys) :
               m # n => dpc_call.result.keys[m] # dpc_call.result.keys[n]

\* C21 amended: the committed components appear in the prompt in the order of
\* priority_order, one for each position of priority_order that was committed,
\* joined by a double newline; keys that are absent from components or have empty
\* content contribute nothing. A component appears at most once when
\* priority_order names no key twice; a key named twice can be committed twice.
C21_OncePerListedPosition ==
    Returned =>
        /\ CommittedInPriorityOrder
        /\ (\A i, j \in 1..Len(dpc_call.priority_order) :
                i # j => dpc_call.priority_order[i] # dpc_call.priority_order[j]) =>
               \A m, n \in 1..Len(dpc_call.result.keys) :
                   m # n => dpc_call.result.keys[m] # dpc_call.result.keys[n]

\* C21 witness: three components were committed around a key that was skipped,
\* and the prompt is the three joined by double newlines, trimmed.
C21_Witness ==
    /\ Returned
    /\ Len(dpc_call.result.elements) = 3
    /\ \A n \in 1..3 : dpc_call.result.elements[n] # <<>>
    /\ \E i \in 1..dpc_call.result.idxs[3] : ~Supplied(i)
    /\ dpc_call.result.prompt =
           Strip(dpc_call.result.elements[1] \o <<"\n", "\n">>
                 \o dpc_call.result.elements[2] \o <<"\n", "\n">>
                 \o dpc_call.result.elements[3])

\* C24: with the character fallback estimator (no tokenizer_func) and
\* max_tokens >= 0, the returned prompt estimates to at most max_tokens for every
\* input: whenever the post-check finds the joined prompt over budget, the whole
\* prompt is cut to 3 * max_tokens characters.
C24_FallbackPromptWithinBudget ==
    (Returned /\ dpc_call.tok = "none" /\ dpc_call.max_tokens >= 0) =>
        /\ estimate_tokens("none", dpc_call.result.prompt) <= dpc_call.max_tokens
        /\ estimate_tokens("none", dpc_call.result.joined) > dpc_call.max_tokens =>
               dpc_call.result.prompt
                   = SubSeq(dpc_call.result.joined, 1, 3 * dpc_call.max_tokens)

\* C24 witness: components that fit one by one joined to a prompt over the budget,
\* and the prompt came back cut.
C24_Witness ==
    /\ Returned /\ dpc_call.tok = "none" /\ dpc_call.max_tokens >= 1
    /\ ~dpc_call.result.truncated
    /\ dpc_call.result.current_tokens <= dpc_call.max_tokens
    /\ estimate_tokens("none", dpc_call.result.joined) > dpc_call.max_tokens
    /\ Len(dpc_call.result.prompt) < Len(dpc_call.result.joined)

\* the component-level fit test (lines 131-133) as it comes out for the block of
\* history walk w
WalkedBlockFits(w) ==
    LET walk == dpc_call.result.walks[w]
    IN  walk.current_tokens
          + estimate_tokens(dpc_call.tok,
                Join(Str_Newline, walk.history_buffer) \o Str_Newline)
          <= dpc_call.max_tokens

\* C25: every history message accepted by the newest-to-oldest walk is in the
\* returned prompt: a block that passed the per-message budget check is not
\* dropped by the component-level fit check, and is committed as an element.
C25_AcceptedHistoryIsKept ==
    Returned =>
        \A w \in 1..Len(dpc_call.result.walks) :
            dpc_call.result.walks[w].history_buffer # <<>> =>
                /\ WalkedBlockFits(w)
                /\ \E n \in 1..Len(dpc_call.result.idxs) :
                       /\ dpc_call.result.idxs[n] = dpc_call.result.walks[w].idx
                       /\ dpc_call.result.elements[n] =
                              Join(Str_Newline, dpc_call.result.walks[w].history_buffer)

\* C26: dropping history messages for budget does not stop processing: when the
\* walk left messages out and the packed block (possibly empty) passes the
\* component-level fit check, the block is committed, the loop does not stop at
\* 'history', and every later key with content is tried in turn: committed, up
\* to the first that does not fit.
C26_LaterKeysStillAttempted ==
    Returned =>
        \A w \in 1..Len(dpc_call.result.walks) :
            LET r == dpc_call.result
                walk == r.walks[w]
                h == walk.idx
            IN  (Len(walk.history_buffer) < Len(dpc_call.components["history"].turns)
                   /\ WalkedBlockFits(w)) =>
                    /\ \E n \in 1..Len(r.idxs) : r.idxs[n] = h
                    /\ r.overflow = 0 \/ r.overflow > h
                    /\ \A j \in (h + 1)..Len(dpc_call.priority_order) :
                           (Supplied(j) /\ (r.overflow = 0 \/ j < r.overflow)) =>
                               \E n \in 1..Len(r.idxs) : r.idxs[n] = j

\* C26 witness: the walk took none of the history, the empty block was committed,
\* and a key after 'history' is in the prompt.
C26_Witness ==
    /\ Returned
    /\ Len(dpc_call.result.walks) = 1
    /\ dpc_call.result.walks[1].history_buffer = <<>>
    /\ \E n \in 1..Len(dpc_call.result.idxs) :
          /\ dpc_call.result.idxs[n] > dpc_call.result.walks[1].idx
          /\ dpc_call.result.elements[n] # <<>>
    /\ dpc_call.result.prompt = dpc_call.result.joined

(***************************************************************************)
(* ContextManager: the oversized message and the storage rule              *)
(***************************************************************************)
\* C22: on a non-empty store, add_message with a message whose cost alone exceeds
\* max_tokens evicts every stored message before the new message is rejected:
\* after the call the store is empty and get_current_token_count() is 0.
C22_Step ==
    (context_history # <<>> /\ cm_last'.op = "add_message"
       /\ cm_last'.tokens > max_tokens) =>
        /\ ~cm_last'.stored
        /\ Len(cm_last'.evicted) = Len(context_history)
        /\ context_history' = <<>>
        /\ get_context(context_history').messages = <<>>
        /\ get_current_token_count(current_total_tokens') = 0

C22_OversizedAddEmptiesStore == [][C22_Step]_vars

\* C22 witness: the 76-character message was offered to a store of two or more
\* messages, which are gone, and it was not stored.
C22_Witness ==
    /\ cm_last.op = "add_message" /\ cm_last.content = Txt_TooLong
    /\ cm_last.tokens > max_tokens /\ max_tokens > 0
    /\ Len(cm_last.evicted) >= 2
    /\ ~cm_last.stored
    /\ context_history = <<>> /\ current_total_tokens = 0

\* C23: with max_tokens >= 0, add_message stores the message if and only if its
\* estimated cost is <= max_tokens, whatever the store held before; a stored
\* message is the last (newest) element of get_context() right after the call.
C23_Step ==
    (cm_last'.op = "add_message" /\ max_tokens >= 0) =>
        /\ cm_last'.tokens = CM_estimate_tokens(cm_last'.content)
        /\ cm_last'.stored <=> (cm_last'.tokens <= max_tokens)
        /\ cm_last'.stored =>
             LET context == get_context(context_history').messages
             IN  /\ context # <<>>
                 /\ context[Len(context)] =
                        [role |-> cm_last'.role, content |-> cm_last'.content]
                 /\ Len(context) = Len(context_history) - Len(cm_last'.evicted) + 1
        /\ ~cm_last'.stored =>
             Len(context_history') = Len(context_history) - Len(cm_last'.evicted)

C23_StoredIffCostWithinMax == [][C23_Step]_vars

\* C23 witness: a message costing exactly max_tokens was added to a store that
\* held others, all of which were evicted for it, and it is the newest element.
C23_Witness ==
    /\ cm_last.op = "add_message" /\ cm_last.stored
    /\ cm_last.tokens = max_tokens /\ max_tokens > 0
    /\ Len(cm_last.evicted) >= 1
    /\ Len(context_history) = 1
    /\ get_context(context_history).messages[1] =
           [role |-> cm_last.role, content |-> cm_last.content]

(***************************************************************************)
(* ContextualMemoryCondenserAI: the hard cut and termination               *)
(***************************************************************************)
\* the text after the single truncation pass of lines 111-127
FirstPass ==
    SlicePrefix(FlatText,
                EstimatedCharsToKeep(cmc_call.has_llm, cmc_call.relevance_query,
                                     cmc_call.target_token_count, cmc_call.strategy))

\* C27 as claimed: if the estimate after the single truncation pass is still above
\* target_token_count, exactly one additional hard cut to
\* int(target_token_count * 3.0) characters is applied and its result is the output.
C27_Original ==
    (Condensed /\ cmc_call.result.path = "condensed"
       /\ estimate_tokens(cmc_call.tok, FirstPass) > cmc_call.target_token_count) =>
        /\ cmc_call.result.hard_cuts = 1
        /\ cmc_call.result.text =
               Strip(SlicePrefix(FirstPass, 3 * cmc_call.target_token_count))

\* C27 amended: the hard cut is applied if and only if the estimate after the
\* single truncation pass is above 1.2 * target_token_count; it is then applied
\* exactly once, to int(target_token_count * 3.0) characters, and its result is
\* the output whatever it estimates to. An estimate above the target but not
\* above 1.2 * target_token_count is accepted without a hard cut.
C27_HardCutAboveTolerance ==
    (Condensed /\ cmc_call.result.path = "condensed") =>
        LET over == 5 * estimate_tokens(cmc_call.tok, FirstPass)
                        > 6 * cmc_call.target_token_count
        IN  /\ cmc_call.result.truncations = 1
            /\ over =>
                 /\ cmc_call.result.hard_cuts = 1
                 /\ cmc_call.result.text =
                        Strip(SlicePrefix(FirstPass, 3 * cmc_call.target_token_count))
            /\ ~over =>
                 /\ cmc_call.result.hard_cuts = 0
                 /\ cmc_call.result.text = Strip(FirstPass)

\* C27 witness: the truncated text was over 1.2 times the target, was cut once more,
\* and the result, still over the target, was returned.
C27_Witness ==
    /\ Condensed /\ cmc_call.result.path = "condensed"
    /\ cmc_call.target_token_count >= 1
    /\ cmc_call.result.hard_cuts = 1
    /\ Len(cmc_call.result.text) < Len(FirstPass)
    /\ estimate_tokens(cmc_call.tok, cmc_call.result.text) > cmc_call.target_token_count

\* C28: condense_information always terminates: every call returns, having made
\* at most one summarize-or-truncate step and at most one additional hard cut
\* after it (so at most three estimates), never iterating toward an exact count.
C28_Terminates ==
    /\ [](Condensed =>
            /\ cmc_call.result.llm_calls <= 1
            /\ cmc_call.result.truncations <= 1
            /\ cmc_call.result.hard_cuts <= 1
            /\ cmc_call.result.hard_cuts <= cmc_call.result.truncations
            /\ cmc_call.result.estimator_calls <= 3)
    /\ (cmc_call.op = "called") ~> Condensed

\* C28 witness: a call returned after one truncation and one hard cut with a text
\* that still estimates above the target.
C28_Witness ==
    /\ Condensed
    /\ cmc_call.result.truncations = 1 /\ cmc_call.result.hard_cuts = 1
    /\ cmc_call.result.estimator_calls = 3
    /\ cmc_call.tok = "words"
    /\ estimate_tokens(cmc_call.tok, cmc_call.result.text) > cmc_call.target_token_count
    /\ cmc_call.result.text # <<>>

(***************************************************************************)
(* The estimators: additivity                                              *)
(***************************************************************************)
\* C29: the fallback character-ratio estimator is additive within rounding: for
\* all strings a and b, estimate(a + b) differs from estimate(a) + estimate(b) by
\* at most 1.
C29_AdditiveWithinOne ==
    est_call.op = "returned" =>
        /\ est_call.of_ab - (est_call.of_a + est_call.of_b) <= 1
        /\ (est_call.of_a + est_call.of_b) - est_call.of_ab <= 1

\* C29 witness: two texts that cost nothing under len // 4 cost one token together.
C29_Witness ==
    /\ est_call.op = "returned" /\ est_call.owner = "prompt_constructor"
    /\ est_call.a # <<>> /\ est_call.b # <<>>
    /\ est_call.of_a = 0 /\ est_call.of_b = 0
    /\ est_call.of_ab = 1

(***************************************************************************)
(* GoalManager: the next goal                                              *)
(***************************************************************************)
\* goal i of the dict is PENDING and each of its dependencies is a goal of the
\* dict that is COMPLETED
Ready(i) ==
    /\ goals[i].status = "pending"
    /\ \A k \in 1..Len(goals[i].dependencies) :
           \E j \in 1..Len(goals) :
               goals[j].id = goals[i].dependencies[k] /\ goals[j].status = "completed"

\* C30: after any sequence of add_goal and update_goal_status calls,
\* get_next_goal_placeholder returns a goal that is PENDING, whose every
\* dependency exists and is COMPLETED, and whose priority is maximal among such
\* goals (the earliest added on ties); it returns None exactly when there is no
\* such goal, and it changes no goal's status.
C30_Step ==
    gm_last'.op = "get_next_goal_placeholder" =>
        /\ goals' = goals
        /\ IF \E i \in 1..Len(goals) : Ready(i)
           THEN \E i \in 1..Len(goals) :
                    /\ Ready(i)
                    /\ gm_last'.returned = goals[i]
                    /\ \A j \in 1..Len(goals) :
                           Ready(j) =>
                               /\ goals[j].priority <= goals[i].priority
                               /\ goals[j].priority = goals[i].priority => i <= j
           ELSE gm_last'.returned = [kind |-> "none"]

C30_NextGoalIsBestReady == [][C30_Step]_vars

\* C30 witness: the first goal added is COMPLETED, the third depends on it, the
\* second and the third are ready with the same priority, and the earlier one
\* was returned.
C30_Witness ==
    /\ gm_last.op = "get_next_goal_placeholder"
    /\ Len(goals) = 3
    /\ goals[1].id \in Uuids /\ goals[1].status = "completed"
    /\ goals[2].status = "pending" /\ goals[2].dependencies = <<>>
    /\ goals[3].id \in Uuids /\ goals[3].status = "pending"
    /\ goals[3].dependencies = <<goals[1].id>>
    /\ goals[2].priority = goals[3].priority
    /\ gm_last.returned = goals[2]

====
